---- MODULE Spec2Model ----
(***************************************************************************)
(* Model of glsdl (src/main.go): main fetches the feed, Process parses it, *)
(* starts the cover goroutine, dispatches one worker goroutine per feed    *)
(* item in groups of `threads` separated by waitGroup.Wait(), and main     *)
(* prints the report.  The statistics counters are bare ints incremented   *)
(* by several goroutines, so each `x++` is a read followed, in a later     *)
(* step, by a write.  The files on disk outlive a run, so the program can  *)
(* be run again on the same feed.                                          *)
(***************************************************************************)
EXTENDS Integers, Sequences, FiniteSets

\* ---- bounds of the model ----
MaxItems == 3
MaxThreads == 2
MaxRuns == 2
MaxTitleLen == 4

ItemIds == 1..MaxItems

\* Values of the -t flag (line 26), which main passes on unchecked: a
\* negative one, zero, and the positive ones up to MaxThreads.
ThreadsFlag == (-1)..MaxThreads

VARIABLES
    nItems,       \* len(feed.Items)
    emptyLen,     \* emptyLen[i]: len(item.Enclosures[0].Length) == 0
    threads,      \* dl.threads
    exists,       \* exists[i]: the destination file of item i is on disk
    run,          \* number of the current run of the program
    pc,           \* position of main / Process
    next,         \* number of feed items the range loop has dispatched
    counter,      \* local `counter` of Process
    waitGroup,    \* dl.waitGroup counter
    batches,      \* sizes of the groups waited on so far, one per Wait call
    statDl,       \* dl.statDl
    statProcess,  \* dl.statProcess
    statFail,     \* dl.statFail
    wpc,          \* wpc[i]: position of the worker goroutine of item i
    wreg,         \* wreg[i]: value the worker read in the `x++` in progress
    opts,         \* opts[i]: "dl" was appended to the worker's opts
    cpc,          \* position of the cover goroutine
    creg,         \* value the cover goroutine read in the `x++` in progress
    coverErr,     \* cover goroutine: downloadFile returned an error
    closeErr,     \* closeErr[i]: the worker's deferred tag.Close() failed
    dlErr,        \* dlErr[i]: the worker's err of line 134 until it returns
    report,       \* the counters as printed by main, <<>> before that
    rawTitle,     \* item.Title of the item given to parseTitle
    author,       \* item.Author.Name of that item
    parsed        \* <<prefix, title>> returned by parseTitle, <<>> before that

vars == <<nItems, emptyLen, threads, exists, run, pc, next, counter,
          waitGroup, batches, statDl, statProcess, statFail, wpc, wreg,
          opts, closeErr, dlErr, cpc, creg, coverErr, report, rawTitle,
          author, parsed>>

titleVars == <<rawTitle, author, parsed>>
feedVars == <<nItems, emptyLen, threads, run, titleVars>>
procVars == <<pc, next, counter, batches, report>>
statVars == <<statDl, statProcess, statFail>>
coverVars == <<cpc, creg, coverErr>>
workerVars == <<wpc, wreg, opts, closeErr, dlErr>>

Items == 1..nItems

\* Positions of a worker at which waitGroup.Done() has been called.
Terminal == {"skipped", "dlFailed", "tagFailed", "processed"}

\* The goroutines stop when the process exits.
Alive == pc \notin {"fatal", "exited"}

\* State of a freshly constructed Glsdl and an unstarted main (NewGlsdl).
Fresh ==
    /\ pc = "fetch"
    /\ next = 0
    /\ counter = 0
    /\ waitGroup = 0
    /\ batches = <<>>
    /\ statDl = 0
    /\ statProcess = 0
    /\ statFail = 0
    /\ wpc = [i \in ItemIds |-> "idle"]
    /\ wreg = [i \in ItemIds |-> 0]
    /\ opts = [i \in ItemIds |-> FALSE]
    /\ closeErr = [i \in ItemIds |-> FALSE]
    /\ dlErr = [i \in ItemIds |-> "ok"]
    /\ cpc = "idle"
    /\ creg = 0
    /\ coverErr = FALSE
    /\ report = <<>>

Init ==
    /\ nItems \in 0..MaxItems
    /\ emptyLen \in [ItemIds -> BOOLEAN]
    /\ \A i \in ItemIds : i > nItems => ~emptyLen[i]
    /\ threads \in ThreadsFlag
    /\ exists = [i \in ItemIds |-> FALSE]
    /\ run = 1
    /\ Fresh
    /\ rawTitle = <<>>
    /\ author = <<>>
    /\ parsed = <<>>

\* ---- main and Process ----

WaitNeededLate(c) == c > threads

WaitNeededEqual(c) == c = threads

\* Line 94: counter >= dl.threads.
WaitNeeded(c) == c >= threads

WaitDoneEarly == waitGroup <= 1

\* sync.WaitGroup.Wait (lines 95 and 100) returns when the counter is zero.
WaitDone == waitGroup = 0

FinalWaitSkipped == counter > 1

\* Line 99: counter > 0.
FinalWaitNeeded == counter > 0

\* main, lines 218-224: http.Get(GlsFeed).  On an error main only logs it and
\* goes on to evaluate &source.Body with source == nil, which panics.
Fetch ==
    /\ pc = "fetch"
    /\ \E ok \in BOOLEAN : pc' = IF ok THEN "parse" ELSE "fatal"
    /\ UNCHANGED <<feedVars, exists, next, counter, batches, report,
                   waitGroup, statVars, workerVars, coverVars>>

ParseErrorReturns ==
    /\ pc = "parse"
    /\ \E ok \in BOOLEAN : pc' = IF ok THEN "cover" ELSE "returned"
    /\ UNCHANGED <<feedVars, exists, next, counter, batches, report,
                   waitGroup, statVars, workerVars, coverVars>>

\* Process, lines 67-72: parser.Parse; log.Fatal on an error.
Parse ==
    /\ pc = "parse"
    /\ \E ok \in BOOLEAN : pc' = IF ok THEN "cover" ELSE "fatal"
    /\ UNCHANGED <<feedVars, exists, next, counter, batches, report,
                   waitGroup, statVars, workerVars, coverVars>>

StartCoverNoAdd ==
    /\ pc = "cover"
    /\ waitGroup' = waitGroup
    /\ cpc' = "download"
    /\ pc' = "loop"
    /\ UNCHANGED <<feedVars, exists, next, counter, batches, report,
                   statVars, workerVars, creg, coverErr>>

\* Process, lines 77-86: waitGroup.Add(1); go func() {...}().
StartCover ==
    /\ pc = "cover"
    /\ waitGroup' = waitGroup + 1
    /\ cpc' = "download"
    /\ pc' = "loop"
    /\ UNCHANGED <<feedVars, exists, next, counter, batches, report,
                   statVars, workerVars, creg, coverErr>>

\* Process, lines 90-94: one iteration of the range loop up to the test of
\* counter against dl.threads; on counter >= dl.threads it calls Wait.
Dispatch ==
    /\ pc = "loop"
    /\ next < nItems
    /\ next' = next + 1
    /\ counter' = counter + 1
    /\ waitGroup' = waitGroup + 1
    /\ wpc' = [wpc EXCEPT ![next + 1] = "start"]
    /\ IF WaitNeeded(counter + 1)
          THEN /\ pc' = "wait"
               /\ batches' = Append(batches, counter + 1)
          ELSE /\ pc' = "loop"
               /\ batches' = batches
    /\ UNCHANGED <<feedVars, exists, report, statVars, wreg, opts, closeErr,
                   dlErr, coverVars>>

\* Process, lines 95-96: waitGroup.Wait() returns; counter = 0.
WaitReturn ==
    /\ pc = "wait"
    /\ WaitDone
    /\ counter' = 0
    /\ pc' = "loop"
    /\ UNCHANGED <<feedVars, exists, next, batches, report, waitGroup,
                   statVars, workerVars, coverVars>>

\* Process, lines 98-100: the loop is over; Wait only if counter > 0.
LoopExit ==
    /\ pc = "loop"
    /\ next = nItems
    /\ IF FinalWaitNeeded
          THEN /\ pc' = "finalWait"
               /\ batches' = Append(batches, counter)
          ELSE /\ pc' = "returned"
               /\ batches' = batches
    /\ UNCHANGED <<feedVars, exists, next, counter, report, waitGroup,
                   statVars, workerVars, coverVars>>

\* Process, lines 100-104: the last waitGroup.Wait() returns, Process returns.
FinalWaitReturn ==
    /\ pc = "finalWait"
    /\ WaitDone
    /\ pc' = "returned"
    /\ UNCHANGED <<feedVars, exists, next, counter, batches, report,
                   waitGroup, statVars, workerVars, coverVars>>

\* main, lines 228-230 with Report, lines 107-115: the counters are read and
\* printed, main returns and the process exits.
Report ==
    /\ pc = "returned"
    /\ report' = <<statDl, statProcess, statFail>>
    /\ pc' = "exited"
    /\ UNCHANGED <<feedVars, exists, next, counter, batches, waitGroup,
                   statVars, workerVars, coverVars>>

\* The program is started again on the same feed: a new Glsdl (NewGlsdl,
\* lines 44-61), the files of the previous run still on disk.
Rerun ==
    /\ pc = "exited"
    /\ run < MaxRuns
    /\ run' = run + 1
    /\ pc' = "fetch"
    /\ next' = 0
    /\ counter' = 0
    /\ waitGroup' = 0
    /\ batches' = <<>>
    /\ statDl' = 0
    /\ statProcess' = 0
    /\ statFail' = 0
    /\ wpc' = [i \in ItemIds |-> "idle"]
    /\ wreg' = [i \in ItemIds |-> 0]
    /\ opts' = [i \in ItemIds |-> FALSE]
    /\ closeErr' = [i \in ItemIds |-> FALSE]
    /\ dlErr' = [i \in ItemIds |-> "ok"]
    /\ cpc' = "idle"
    /\ creg' = 0
    /\ coverErr' = FALSE
    /\ report' = <<>>
    /\ UNCHANGED <<nItems, emptyLen, threads, exists, titleVars>>

\* ---- the cover goroutine, lines 78-86 ----

CoverDownloadCountsError ==
    /\ Alive
    /\ cpc = "download"
    /\ \E ok \in BOOLEAN :
          /\ coverErr' = ~ok
          /\ cpc' = "dlWrite"
          /\ creg' = statDl
    /\ UNCHANGED <<feedVars, exists, procVars, waitGroup, statVars,
                   workerVars>>

\* dl.downloadFile(feed.Image.URL, filename), lines 81-83 and 181-209: the
\* transfer, and when it succeeded the read of dl.statDl++ (line 209).
CoverDownload ==
    /\ Alive
    /\ cpc = "download"
    /\ \E ok \in BOOLEAN :
          /\ coverErr' = ~ok
          /\ cpc' = IF ok THEN "dlWrite" ELSE "procRead"
          /\ creg' = IF ok THEN statDl ELSE 0
    /\ UNCHANGED <<feedVars, exists, procVars, waitGroup, statVars,
                   workerVars>>

CoverDlWriteTwice ==
    /\ Alive
    /\ cpc = "dlWrite"
    /\ statDl' = creg + 2
    /\ creg' = 0
    /\ cpc' = "procRead"
    /\ UNCHANGED <<feedVars, exists, procVars, waitGroup, statProcess,
                   statFail, workerVars, coverErr>>

\* dl.statDl++ (line 209), the write.
CoverDlWrite ==
    /\ Alive
    /\ cpc = "dlWrite"
    /\ statDl' = creg + 1
    /\ creg' = 0
    /\ cpc' = "procRead"
    /\ UNCHANGED <<feedVars, exists, procVars, waitGroup, statProcess,
                   statFail, workerVars, coverErr>>

\* dl.statProcess++ (line 85), the read.
CoverProcRead ==
    /\ Alive
    /\ cpc = "procRead"
    /\ creg' = statProcess
    /\ cpc' = "procWrite"
    /\ UNCHANGED <<feedVars, exists, procVars, waitGroup, statVars,
                   workerVars, coverErr>>

\* dl.statProcess++ (line 85), the write, then the deferred Done (line 79).
CoverProcWrite ==
    /\ Alive
    /\ cpc = "procWrite"
    /\ statProcess' = creg + 1
    /\ creg' = 0
    /\ waitGroup' = waitGroup - 1
    /\ cpc' = "done"
    /\ UNCHANGED <<feedVars, exists, procVars, statDl, statFail,
                   workerVars, coverErr>>

\* ---- the worker goroutine of item i, lines 118-163 ----

\* Outcomes of one downloadFile call: os.Create fails (line 182), http.Get
\* fails (line 193), io.Copy fails (line 204), or the body is copied.
DlOutcomes == {"ok", "createErr", "getErr", "copyErr"}

CreatedOnSuccess(o) == o = "ok"

\* os.Create(dest) has run and left a file at dest (lines 182-185).
Created(o) == o # "createErr"

SkipsNever(i) == FALSE

\* Line 120: len(item.Enclosures[0].Length) == 0.
Skips(i) == emptyLen[i]

AlwaysDownload(i) == TRUE

\* Line 132: os.Stat(filename) reports that the file does not exist.
NeedsDownload(i) == ~exists[i]

WorkerStartNoDone(i) ==
    /\ Alive
    /\ wpc[i] = "start"
    /\ IF Skips(i)
          THEN /\ wpc' = [wpc EXCEPT ![i] = "skipped"]
               /\ waitGroup' = waitGroup
               /\ opts' = opts
          ELSE /\ waitGroup' = waitGroup
               /\ IF NeedsDownload(i)
                     THEN /\ wpc' = [wpc EXCEPT ![i] = "download"]
                          /\ opts' = [opts EXCEPT ![i] = TRUE]
                     ELSE /\ wpc' = [wpc EXCEPT ![i] = "open"]
                          /\ opts' = opts
    /\ UNCHANGED <<feedVars, exists, procVars, statVars, wreg, closeErr, dlErr,
                   coverVars>>

\* Lines 119-133: the deferred Done is registered, an item with an empty
\* enclosure length returns at once; otherwise os.Stat decides on a download.
WorkerStart(i) ==
    /\ Alive
    /\ wpc[i] = "start"
    /\ IF Skips(i)
          THEN /\ wpc' = [wpc EXCEPT ![i] = "skipped"]
               /\ waitGroup' = waitGroup - 1
               /\ opts' = opts
          ELSE /\ waitGroup' = waitGroup
               /\ IF NeedsDownload(i)
                     THEN /\ wpc' = [wpc EXCEPT ![i] = "download"]
                          /\ opts' = [opts EXCEPT ![i] = TRUE]
                     ELSE /\ wpc' = [wpc EXCEPT ![i] = "open"]
                          /\ opts' = opts
    /\ UNCHANGED <<feedVars, exists, procVars, statVars, wreg, closeErr, dlErr,
                   coverVars>>

\* Line 134 with downloadFile, lines 181-209: the transfer, then the read of
\* the counter the worker increments next: dl.statDl++ (line 209) when the
\* body was copied, dl.statFail++ (line 137) on an error.
WorkerDownload(i) ==
    /\ Alive
    /\ wpc[i] = "download"
    /\ \E o \in DlOutcomes :
          /\ exists' = [exists EXCEPT ![i] = exists[i] \/ Created(o)]
          /\ wpc' = [wpc EXCEPT ![i] = IF o = "ok" THEN "dlWrite"
                                                   ELSE "dlFailWrite"]
          /\ wreg' = [wreg EXCEPT ![i] = IF o = "ok" THEN statDl
                                                     ELSE statFail]
          /\ dlErr' = [dlErr EXCEPT ![i] = o]
    /\ UNCHANGED <<feedVars, procVars, waitGroup, statVars, opts, closeErr,
                   coverVars>>

\* dl.statDl++ (line 209), the write; downloadFile returns nil.
WorkerDlWrite(i) ==
    /\ Alive
    /\ wpc[i] = "dlWrite"
    /\ statDl' = wreg[i] + 1
    /\ wreg' = [wreg EXCEPT ![i] = 0]
    /\ wpc' = [wpc EXCEPT ![i] = "open"]
    /\ UNCHANGED <<feedVars, exists, procVars, waitGroup, statProcess,
                   statFail, opts, closeErr, dlErr, coverVars>>

WorkerDlFailNoReturn(i) ==
    /\ Alive
    /\ wpc[i] = "dlFailWrite"
    /\ statFail' = wreg[i] + 1
    /\ wreg' = [wreg EXCEPT ![i] = 0]
    /\ waitGroup' = waitGroup
    /\ wpc' = [wpc EXCEPT ![i] = "open"]
    /\ dlErr' = [dlErr EXCEPT ![i] = "ok"]
    /\ UNCHANGED <<feedVars, exists, procVars, statDl, statProcess, opts,
                   closeErr, coverVars>>

WorkerDlFailAborts(i) ==
    /\ Alive
    /\ wpc[i] = "dlFailWrite"
    /\ statFail' = wreg[i] + 1
    /\ wreg' = [wreg EXCEPT ![i] = 0]
    /\ waitGroup' = waitGroup - 1
    /\ wpc' = [wpc EXCEPT ![i] = "dlFailed"]
    /\ dlErr' = [dlErr EXCEPT ![i] = "ok"]
    /\ pc' = "fatal"
    /\ UNCHANGED <<feedVars, exists, next, counter, batches, report, statDl,
                   statProcess, opts, closeErr, coverVars>>

\* dl.statFail++ (line 137), the write; return (line 138) and deferred Done.
WorkerDlFailWrite(i) ==
    /\ Alive
    /\ wpc[i] = "dlFailWrite"
    /\ statFail' = wreg[i] + 1
    /\ wreg' = [wreg EXCEPT ![i] = 0]
    /\ waitGroup' = waitGroup - 1
    /\ wpc' = [wpc EXCEPT ![i] = "dlFailed"]
    /\ dlErr' = [dlErr EXCEPT ![i] = "ok"]
    /\ UNCHANGED <<feedVars, exists, procVars, statDl, statProcess, opts,
                   closeErr, coverVars>>

\* id3.Open(filename), lines 143-144, then the read of the counter the worker
\* increments next: on an error dl.statFail++ (line 146); otherwise the five
\* tag setters (they return nothing), the deferred tag.Close is registered
\* and dl.statProcess++ (lines 149-159).
WorkerOpen(i) ==
    /\ Alive
    /\ wpc[i] = "open"
    /\ \E ok \in BOOLEAN :
          /\ wpc' = [wpc EXCEPT ![i] = IF ok THEN "procWrite"
                                             ELSE "tagFailWrite"]
          /\ wreg' = [wreg EXCEPT ![i] = IF ok THEN statProcess
                                               ELSE statFail]
    /\ UNCHANGED <<feedVars, exists, procVars, waitGroup, statVars, opts,
                   closeErr, dlErr, coverVars>>

\* dl.statFail++ (line 146), the write; return (line 147) and deferred Done.
WorkerTagFailWrite(i) ==
    /\ Alive
    /\ wpc[i] = "tagFailWrite"
    /\ statFail' = wreg[i] + 1
    /\ wreg' = [wreg EXCEPT ![i] = 0]
    /\ waitGroup' = waitGroup - 1
    /\ wpc' = [wpc EXCEPT ![i] = "tagFailed"]
    /\ UNCHANGED <<feedVars, exists, procVars, statDl, statProcess, opts,
                   closeErr, dlErr, coverVars>>

\* dl.statProcess++ (line 159), the write; lines 160-163, then the deferred
\* calls: tag.Close, whose error is dropped (lines 155-157), and Done.
WorkerProcWrite(i) ==
    /\ Alive
    /\ wpc[i] = "procWrite"
    /\ statProcess' = wreg[i] + 1
    /\ wreg' = [wreg EXCEPT ![i] = 0]
    /\ \E err \in BOOLEAN : closeErr' = [closeErr EXCEPT ![i] = err]
    /\ waitGroup' = waitGroup - 1
    /\ wpc' = [wpc EXCEPT ![i] = "processed"]
    /\ UNCHANGED <<feedVars, exists, procVars, statDl, statFail, opts, dlErr,
                   coverVars>>

Worker(i) ==
    \/ WorkerStart(i)
    \/ WorkerDownload(i)
    \/ WorkerDlWrite(i)
    \/ WorkerDlFailWrite(i)
    \/ WorkerOpen(i)
    \/ WorkerTagFailWrite(i)
    \/ WorkerProcWrite(i)

Next ==
    \/ Fetch
    \/ Parse
    \/ StartCover
    \/ Dispatch
    \/ WaitReturn
    \/ LoopExit
    \/ FinalWaitReturn
    \/ Report
    \/ Rerun
    \/ CoverDownload
    \/ CoverDlWrite
    \/ CoverProcRead
    \/ CoverProcWrite
    \/ \E i \in ItemIds : Worker(i)

Spec == Init /\ [][Next]_vars

\* The steps of main (with Process) and of the cover goroutine.
MainNext ==
    \/ Fetch
    \/ Parse
    \/ StartCover
    \/ Dispatch
    \/ WaitReturn
    \/ LoopExit
    \/ FinalWaitReturn
    \/ Report

CoverNext ==
    \/ CoverDownload
    \/ CoverDlWrite
    \/ CoverProcRead
    \/ CoverProcWrite

\* The steps of one run of the program.
RunNext == MainNext \/ CoverNext \/ \E i \in ItemIds : Worker(i)

\* One run of the program, started with none or with all of the files of
\* the feed on disk.
FairInit ==
    /\ nItems \in 0..MaxItems
    /\ emptyLen \in [ItemIds -> BOOLEAN]
    /\ \A i \in ItemIds : i > nItems => ~emptyLen[i]
    /\ threads \in ThreadsFlag
    /\ \E onDisk \in BOOLEAN : exists = [i \in ItemIds |-> onDisk]
    /\ run = 1
    /\ Fresh
    /\ rawTitle = <<>>
    /\ author = <<>>
    /\ parsed = <<>>

\* The Go scheduler keeps running goroutines that can run, and every
\* blocking fetch and tag call returns: while some goroutine of the run can
\* take a step, one does.
FairSpec == FairInit /\ [][RunNext]_vars /\ WF_vars(RunNext)

TypeOK ==
    /\ nItems \in 0..MaxItems
    /\ waitGroup \in 0..(MaxItems + 1)
    /\ statDl \in 0..(MaxItems + 1)
    /\ statProcess \in 0..(MaxItems + 1)
    /\ statFail \in 0..MaxItems

\* ---- parseTitle, lines 166-177 ----

\* The characters of a title, one of each kind the pattern of line 49
\* tells apart: "e" is in the class [...|Episode] and alphanumeric, "1" is
\* alphanumeric only, " " is whitespace, "." the dot, "/" the path
\* separator ps (line 22), which is in none of the classes.
Chars == {"e", "1", " ", ".", "/"}
MarkerChars == {"e"}
AlnumChars == {"e", "1"}
SpaceChars == {" "}
DotChars == {"."}
PathSeparator == "/"

\* The strings of at most n characters, as sequences.
Strings(n) == UNION {[1..k -> Chars] : k \in 0..n}

\* Length of the longest prefix of s made of characters of cs: what a greedy
\* `[cs]+` or `[cs]*` takes when the next piece of the pattern cannot start
\* with a character of cs, or can match anything.
RECURSIVE RunLen(_, _)
RunLen(s, cs) ==
    IF s = <<>> \/ Head(s) \notin cs THEN 0 ELSE 1 + RunLen(Tail(s), cs)

Drop(s, n) == SubSeq(s, n + 1, Len(s))

\* dl.parsePattern.FindStringSubmatch(item.Title), lines 49 and 167:
\* ^[...]+\s+([[:alnum:]]+)\.*\s*(.*?)$ ; <<>> when there is no match,
\* else <<res[1], res[2]>>.
FindStringSubmatch(t) ==
    LET a  == RunLen(t, MarkerChars)
        r1 == Drop(t, a)
        b  == RunLen(r1, SpaceChars)
        r2 == Drop(r1, b)
        c  == RunLen(r2, AlnumChars)
        r3 == Drop(r2, c)
        r4 == Drop(r3, RunLen(r3, DotChars))
        r5 == Drop(r4, RunLen(r4, SpaceChars))
    IN  IF a >= 1 /\ b >= 1 /\ c >= 1
           THEN <<SubSeq(r2, 1, c), r5>>
           ELSE <<>>

\* strings.Replace(title, ps, "_", -1), line 175.
ReplaceSeparator(s) ==
    [k \in 1..Len(s) |-> IF s[k] = PathSeparator THEN "_" ELSE s[k]]

\* parseTitle, lines 166-177.
parseTitle(t, name) ==
    LET res == FindStringSubmatch(t)
    IN  IF Len(res) = 0
           THEN <<<<>>, t>>
           ELSE <<res[1],
                  ReplaceSeparator(IF Len(res[2]) = 0 THEN name ELSE res[2])>>

\* The item of one parseTitle call: any title of at most MaxTitleLen
\* characters, an author name that is empty, plain or holds a separator.
TitleInit ==
    /\ rawTitle \in Strings(MaxTitleLen)
    /\ author \in {<<>>, <<"1">>, <<"1", "/">>}
    /\ parsed = <<>>
    /\ nItems = 0
    /\ emptyLen = [i \in ItemIds |-> FALSE]
    /\ threads = 1
    /\ exists = [i \in ItemIds |-> FALSE]
    /\ run = 1
    /\ Fresh

\* prefix, title := dl.parseTitle(item), line 125.
ParseTitleCall ==
    /\ parsed = <<>>
    /\ parsed' = parseTitle(rawTitle, author)
    /\ UNCHANGED <<rawTitle, author, nItems, emptyLen, threads, run, exists,
                   procVars, waitGroup, statVars, workerVars, coverVars>>

TitleNext == ParseTitleCall

TitleSpec == TitleInit /\ [][TitleNext]_vars

\* ---- vocabulary of the properties ----

\* Worker goroutines that were dispatched and have not called Done.
InFlight == {i \in Items : wpc[i] \notin ({"idle"} \cup Terminal)}

\* Index (from 0) of the group of `threads` consecutive items holding item i.
BatchOf(i) == (i - 1) \div threads

CeilDiv(n, t) == (n + t - 1) \div t

RECURSIVE SumSeq(_)
SumSeq(q) == IF q = <<>> THEN 0 ELSE Head(q) + SumSeq(Tail(q))

NonEmpty == {i \in Items : ~emptyLen[i]}

\* Increments of statProcess and of statFail executed to completion.
ProcIncrs == Cardinality({i \in Items : wpc[i] = "processed"})
                + (IF cpc = "done" THEN 1 ELSE 0)
FailIncrs == Cardinality({i \in Items : wpc[i] \in {"dlFailed", "tagFailed"}})

\* Handlers whose downloadFile call returned nil.
DlSucceeded == {i \in Items : opts[i] /\ wpc[i] \in {"tagFailed", "processed"}}

\* The cover goroutine was started and has not called Done.
CoverRunning == cpc \notin {"idle", "done"}

\* downloadFile calls that returned nil: "dl" is in opts and the worker is
\* past the call, or the cover goroutine is past it without an error.
DlCallsSucceeded ==
    Cardinality({i \in Items :
        opts[i] /\ wpc[i] \in {"open", "procWrite", "tagFailWrite",
                               "tagFailed", "processed"}})
      + (IF cpc \in {"procRead", "procWrite", "done"} /\ ~coverErr
            THEN 1 ELSE 0)

\* ---- C1 ----

\* C1: batch barrier.  With threads >= 1, no worker of batch k+1 has been
\* started while some worker of batch k has not yet called Done.
C1_BatchBarrier ==
    threads >= 1 =>
        \A i, j \in Items :
            (BatchOf(j) = BatchOf(i) + 1 /\ wpc[j] # "idle")
                => wpc[i] \in Terminal

C1_Witness ==
    /\ threads = 2
    /\ nItems = 3
    /\ wpc[3] = "download"
    /\ wpc[1] = "dlFailed"
    /\ wpc[2] = "processed"

\* ---- C2 ----

\* C2: with threads >= 1, at most `threads` workers are in flight (dispatched
\* and not yet Done) in every reachable state.
C2_AtMostThreadsInFlight ==
    threads >= 1 => Cardinality(InFlight) <= threads

C2_Witness ==
    /\ threads = 2
    /\ Cardinality(InFlight) = 2
    /\ cpc # "done"

\* ---- C3 ----

\* C3: when Process has returned, the cover goroutine has finished and every
\* item has been dispatched and waited on, for every nItems >= 0 and every
\* threads >= 1.
C3_ProcessCompletion ==
    (pc = "returned" /\ threads >= 1) =>
        /\ cpc = "done"
        /\ \A i \in Items : wpc[i] \in Terminal

\* ---- C4 ----

\* C4: no increment of the counters is lost.  When Process has returned from
\* a run with threads = nItems, statProcess + statFail equals the number of
\* increments the workers and the cover goroutine applied to the two counters.
C4_NoLostUpdate ==
    (pc = "returned" /\ threads = nItems /\ nItems >= 1) =>
        statProcess + statFail = ProcIncrs + FailIncrs

\* ---- C5 ----

\* C5 as stated: after Process has returned on a feed of K items, M of them
\* with an empty enclosure length, statProcess + statFail = K - M (read here
\* in the runs that favour it: the cover goroutine has finished and no
\* increment was lost).
C5_SumIsKMinusM ==
    (pc = "returned" /\ cpc = "done"
        /\ statProcess + statFail = ProcIncrs + FailIncrs) =>
        statProcess + statFail = nItems - Cardinality(Items \ NonEmpty)

\* C5 amended: after Process has returned, statProcess + statFail is at most
\* K - M + 1; on a non-empty feed exactly K - M + 1 increments were applied
\* to the two counters: one by every worker of an item with a non-empty
\* length, one by the cover goroutine.
C5_SumAtMostKMinusMPlusCover ==
    pc = "returned" =>
        /\ statProcess + statFail <= Cardinality(NonEmpty) + 1
        /\ nItems >= 1 => ProcIncrs + FailIncrs = Cardinality(NonEmpty) + 1

C5_Witness ==
    /\ pc = "returned"
    /\ nItems = 3
    /\ emptyLen[2]
    /\ statProcess = 2
    /\ statFail = 1

\* ---- C6 ----

\* C6 as stated: after Process has returned, statDl <= statProcess (read here
\* in the runs that favour it: the cover goroutine has finished and no
\* increment of statProcess was lost).
C6_DlAtMostProcessed ==
    (pc = "returned" /\ cpc = "done" /\ statProcess = ProcIncrs) =>
        statDl <= statProcess

\* C6 amended: after Process has returned and the cover goroutine has
\* finished, statDl is at most the number of workers that attempted a
\* download and went on to the tag step (ending processed or failed on the
\* open), plus one when the cover download succeeded.
C6_DlAtMostDownloads ==
    (pc = "returned" /\ cpc = "done") =>
        statDl <= Cardinality(DlSucceeded) + (IF coverErr THEN 0 ELSE 1)

C6_Witness ==
    /\ pc = "returned"
    /\ cpc = "done"
    /\ statDl > statProcess
    /\ \E i \in Items : wpc[i] = "tagFailed" /\ opts[i]

\* ---- C7 ----

\* C7: with threads >= 1, when Process has returned it has issued exactly
\* ceil(nItems / threads) batches, each of `threads` items except the last,
\* which holds nItems mod threads items (threads when that is 0); the batches
\* hold every feed item, those with an empty length included.
C7_BatchCount ==
    (pc = "returned" /\ threads >= 1) =>
        /\ Len(batches) = CeilDiv(nItems, threads)
        /\ \A k \in 1..Len(batches) :
              batches[k] = IF k < Len(batches) \/ nItems % threads = 0
                              THEN threads
                              ELSE nItems % threads
        /\ SumSeq(batches) = nItems

C7_Witness ==
    /\ pc = "returned"
    /\ threads = 2
    /\ nItems = 3
    /\ emptyLen[1]
    /\ batches = <<2, 1>>

\* ---- C8 ----

\* C8: failure isolation.  A worker that ended on a download or open error
\* has incremented statFail and called Done; no worker failure ends the run
\* (the run is fatal only before anything was started); and when Process has
\* returned every item was dispatched and every worker reached its own
\* terminal outcome, whatever the others did.
C8_FailureIsolation ==
    /\ \A i \in Items : wpc[i] \in {"dlFailed", "tagFailed"} => statFail >= 1
    /\ pc = "fatal" => (cpc = "idle" /\ \A i \in Items : wpc[i] = "idle")
    /\ (pc = "returned" /\ nItems >= 1) =>
          (next = nItems /\ \A i \in Items : wpc[i] \in Terminal)

C8_Witness ==
    /\ pc = "returned"
    /\ nItems = 3
    /\ wpc[1] = "dlFailed"
    /\ wpc[2] = "processed"
    /\ wpc[3] = "tagFailed"

\* ---- C9 ----

\* C9 as stated: a worker that found its file on disk (no "dl" in opts)
\* ends counted as processed.
C9_SkipAlwaysProcessed ==
    \A i \in NonEmpty :
        (~opts[i] /\ wpc[i] \in Terminal) => wpc[i] = "processed"

\* C9 amended: a worker that finds its file on disk goes straight to
\* id3.Open without calling downloadFile and without touching statDl, and it
\* never enters the download path afterwards; it ends counted as processed
\* when the open succeeds and as failed when the open fails.
C9_SkipCache ==
    /\ [][\A i \in NonEmpty :
            (wpc[i] = "start" /\ exists[i] /\ wpc'[i] # "start")
                => (wpc'[i] = "open" /\ ~opts'[i] /\ statDl' = statDl)]_vars
    /\ [](\A i \in NonEmpty :
            ~opts[i] => wpc[i] \in {"idle", "start", "open", "procWrite",
                                    "processed", "tagFailWrite",
                                    "tagFailed"})

C9_Witness ==
    /\ run = 2
    /\ \E i \in NonEmpty : exists[i] /\ ~opts[i] /\ wpc[i] = "processed"

\* ---- C10 ----

\* C10: every failure of the tag step, the close included, ends the worker
\* as failed: a worker counted as processed had no failing tag.Close.
C10_TagFailureCounted ==
    \A i \in Items :
        /\ wpc[i] = "processed" => ~closeErr[i]
        /\ closeErr[i] => wpc[i] = "tagFailed"

\* ---- C11 ----

\* C11: termination and report.  Once the feed is fetched and parsed, main
\* eventually has the report on its output and exits, whatever the outcomes
\* of the items: every worker calls Done on every path, so no Wait blocks
\* forever.
C11_ReportAlwaysPrinted ==
    (pc = "cover") ~> (pc = "exited" /\ report # <<>>)

C11_Witness ==
    /\ pc = "exited"
    /\ nItems = 3
    /\ report = <<1, 1, 2>>
    /\ wpc[1] = "dlFailed"
    /\ wpc[2] = "skipped"
    /\ wpc[3] = "tagFailed"

\* ---- C12 ----

\* C12: fatal path.  When the feed cannot be fetched or parsed the run ends
\* for good with no goroutine started and no report; a report is only ever
\* on the output of a run that parsed its feed and started the cover task.
C12_FatalPath ==
    /\ [](pc = "fatal" =>
            /\ cpc = "idle"
            /\ \A i \in ItemIds : wpc[i] = "idle"
            /\ waitGroup = 0
            /\ report = <<>>)
    /\ [](report # <<>> => cpc # "idle")
    /\ [][pc = "fatal" => pc' = "fatal"]_vars

C12_Witness ==
    /\ pc = "fatal"
    /\ run = 2
    /\ report = <<>>

\* ---- C13 ----

\* C13: statDl never exceeds the number of downloadFile calls that returned
\* nil and is at least 1 once there is one; a call that fails leaves statDl
\* alone; the write of a call that succeeded adds exactly one to the value
\* the call read, hence to statDl when no other write came in between
\* (within one run of the program).
C13_DlCountedOncePerSuccess ==
    /\ [](statDl <= DlCallsSucceeded)
    /\ [](DlCallsSucceeded >= 1 => statDl >= 1)
    /\ [][run' = run =>
            /\ \A i \in Items :
                 /\ (wpc[i] = "download" /\ wpc'[i] = "dlFailWrite")
                       => statDl' = statDl
                 /\ (wpc[i] = "dlWrite" /\ wpc'[i] # "dlWrite"
                       /\ wreg[i] = statDl) => statDl' = statDl + 1
            /\ (cpc = "download" /\ cpc' = "procRead") => statDl' = statDl
            /\ (cpc = "dlWrite" /\ cpc' # "dlWrite" /\ creg = statDl)
                  => statDl' = statDl + 1]_vars

C13_Witness ==
    /\ pc = "returned"
    /\ nItems = 3
    /\ wpc[1] = "dlFailed"
    /\ wpc[2] = "tagFailed"
    /\ wpc[3] = "processed"
    /\ ~coverErr
    /\ statDl = 3

\* ---- C15 ----

\* C15: a worker of an item with a non-empty length changes statProcess or
\* statFail only in the step that ends it, and there it writes exactly one of
\* the two, once: statProcess when it ends processed, statFail when it ends
\* failed; a worker that has ended takes no further step in the run.
C15_OneTerminalOutcome ==
    [][\A i \in NonEmpty :
          (wpc'[i] # wpc[i] /\ run' = run) =>
              /\ wpc[i] \notin Terminal
              /\ wpc'[i] # "skipped"
              /\ wpc'[i] = "processed"
                    => (statProcess' = wreg[i] + 1 /\ statFail' = statFail)
              /\ wpc'[i] \in {"dlFailed", "tagFailed"}
                    => (statFail' = wreg[i] + 1 /\ statProcess' = statProcess)
              /\ wpc'[i] \notin Terminal
                    => (statProcess' = statProcess /\ statFail' = statFail)]_vars

C15_Witness ==
    /\ pc = "returned"
    /\ nItems = 2
    /\ wpc[1] = "tagFailed"
    /\ wpc[2] = "processed"
    /\ statFail = 1
    /\ statProcess = 2

\* ---- C16 ----

\* C16: the cover goroutine never changes statFail, writes statProcess once,
\* in the step that ends it, whether or not its download failed, and after a
\* failed download it does not change statDl.
C16_CoverProcessedNeverFailed ==
    [][(cpc' # cpc /\ run' = run) =>
          /\ cpc # "done"
          /\ statFail' = statFail
          /\ cpc' = "done" => statProcess' = creg + 1
          /\ cpc' # "done" => statProcess' = statProcess
          /\ coverErr' => statDl' = statDl]_vars

C16_Witness ==
    /\ cpc = "done"
    /\ coverErr
    /\ nItems = 0
    /\ statDl = 0
    /\ statFail = 0
    /\ statProcess = 1

\* ---- C17 ----

\* C17: the worker of an item with an empty enclosure length only calls
\* Done: its one step leaves the counters, the files and its opts unchanged,
\* and it is never at a download or tag position.
C17_EmptyLengthOnlyDone ==
    /\ [](\A i \in Items :
            emptyLen[i] => wpc[i] \in {"idle", "start", "skipped"})
    /\ [][\A i \in Items :
            (emptyLen[i] /\ wpc[i] = "start" /\ wpc'[i] # "start") =>
                /\ wpc'[i] = "skipped"
                /\ waitGroup' = waitGroup - 1
                /\ UNCHANGED <<statVars, exists, opts, wreg, closeErr,
                               dlErr>>]_vars

C17_Witness ==
    /\ pc = "returned"
    /\ nItems = 2
    /\ wpc[1] = "skipped"
    /\ wpc[2] = "processed"
    /\ ~exists[1]

\* ---- C18 ----

\* C18: a download that failed on the request or on the copy has left a file
\* at the destination; files stay on disk; and a worker that finds its file
\* goes to id3.Open, never to downloadFile: while the file remains, no later
\* run downloads the item again.
C18_FailedDownloadNeverRetried ==
    /\ [](\A i \in Items :
            dlErr[i] \in {"getErr", "copyErr"} => exists[i])
    /\ [][\A i \in Items :
            /\ exists[i] => exists'[i]
            /\ (exists[i] /\ wpc'[i] = "download") => wpc[i] = "download"]_vars

C18_Witness ==
    /\ run = 2
    /\ nItems = 1
    /\ exists[1]
    /\ ~opts[1]
    /\ wpc[1] = "open"
    /\ statDl = 0

\* ---- C19 ----

\* C19: with threads >= 1, the cover goroutine has finished before any
\* worker of the second or a later batch is started, and at most threads + 1
\* goroutines (the workers and the cover) are in flight.
C19_CoverOnlyWithFirstBatch ==
    threads >= 1 =>
        /\ \A j \in Items :
              (BatchOf(j) >= 1 /\ wpc[j] # "idle") => cpc = "done"
        /\ Cardinality(InFlight) + (IF CoverRunning THEN 1 ELSE 0)
              <= threads + 1

C19_Witness ==
    /\ threads = 2
    /\ Cardinality(InFlight) = 2
    /\ CoverRunning

\* ---- C20 ----

\* C20: with threads <= 0 Process waits after every dispatch: every batch is
\* one item, at most one worker is in flight, a Wait is only pending on
\* goroutines that are still running, and when Process has returned every
\* item was dispatched and has ended.
C20_NoLimitMeansOneByOne ==
    threads <= 0 =>
        /\ \A k \in 1..Len(batches) : batches[k] = 1
        /\ Cardinality(InFlight) <= 1
        /\ waitGroup = Cardinality(InFlight) + (IF CoverRunning THEN 1 ELSE 0)
        /\ pc = "returned" =>
              /\ Len(batches) = nItems
              /\ next = nItems
              /\ \A i \in Items : wpc[i] \in Terminal

C20_Witness ==
    /\ threads <= 0
    /\ pc = "returned"
    /\ nItems = 3
    /\ batches = <<1, 1, 1>>


\* ---- C14 ----

\* C14: the title returned by parseTitle holds no path separator, whether or
\* not the raw title matches the pattern.
C14_TitleHasNoSeparator ==
    parsed # <<>> =>
        \A k \in 1..Len(parsed[2]) : parsed[2][k] # PathSeparator

====
